---------------------------- MODULE Spec2Model ----------------------------
(***************************************************************************)
(* Model of book_to_md.py: the conversion of a book payload (a JSON tree   *)
(* with Japanese keys) into Markdown text.                                 *)
(*                                                                         *)
(* A Python str is a sequence of characters; a character is a one-element  *)
(* string.  Characters outside ASCII are written by their reading:         *)
(*   "tsu" "ma" "ri" = つ ま り     "ten" = 、                             *)
(*   "dai" = 第   "shou" = 章   "chuu" = 註 / 注   "shaku" = 釈            *)
(*   "suu" "shiki" = 数 式   "dan" "raku" = 段 落   "zu" = 図              *)
(* A JSON value is a tagged record; a dict is a record whose keys are      *)
(* written in English (the source's key is given where the key is read),   *)
(* and a key the dict does not hold carries the value ABSENT.              *)
(***************************************************************************)
EXTENDS Integers, Sequences, FiniteSets

VARIABLES payload, lines, pc, ix, out, origin

vars == <<payload, lines, pc, ix, out, origin>>

---------------------------------------------------------------------------
(* Python str methods *)

NL == "\n"

IsSpace(c) == c \in {" ", NL, "\t"}

RECURSIVE rstrip(_)
rstrip(s) ==
    IF s = <<>> THEN s
    ELSE IF IsSpace(s[Len(s)]) THEN rstrip(SubSeq(s, 1, Len(s) - 1))
    ELSE s

RECURSIVE lstrip(_)
lstrip(s) ==
    IF s = <<>> THEN s
    ELSE IF IsSpace(s[1]) THEN lstrip(Tail(s))
    ELSE s

strip(s) == lstrip(rstrip(s))

startswith(s, p) == Len(s) >= Len(p) /\ SubSeq(s, 1, Len(p)) = p

endswith(s, p) == Len(s) >= Len(p) /\ SubSeq(s, Len(s) - Len(p) + 1, Len(s)) = p

removeprefix(s, p) ==
    IF startswith(s, p) THEN SubSeq(s, Len(p) + 1, Len(s)) ELSE s

removesuffix(s, p) ==
    IF endswith(s, p) THEN SubSeq(s, 1, Len(s) - Len(p)) ELSE s

\* "\n".join(ls)
RECURSIVE join(_)
join(ls) ==
    IF ls = <<>> THEN <<>>
    ELSE IF Len(ls) = 1 THEN ls[1]
    ELSE ls[1] \o <<NL>> \o join(Tail(ls))

\* "#" * n
RECURSIVE repeat(_, _)
repeat(c, n) == IF n <= 0 THEN <<>> ELSE <<c>> \o repeat(c, n - 1)

max(a, b) == IF a >= b THEN a ELSE b

---------------------------------------------------------------------------
(* JSON values and the dict / str operations the code applies to them *)

ABSENT == [t |-> "absent"]
NULL == [t |-> "null"]
Str(s) == [t |-> "str", s |-> s]
Num(n) == [t |-> "int", n |-> n]
List(l) == [t |-> "list", l |-> l]
Dict(d) == [t |-> "dict", d |-> d]

Digit(n) == CASE n = 0 -> "0" [] n = 1 -> "1" [] n = 2 -> "2" [] n = 3 -> "3"
              [] n = 4 -> "4" [] n = 5 -> "5" [] n = 6 -> "6" [] n = 7 -> "7"
              [] n = 8 -> "8" [] n = 9 -> "9"

RECURSIVE decimal(_)
decimal(n) == IF n < 10 THEN <<Digit(n)>> ELSE decimal(n \div 10) \o <<Digit(n % 10)>>

\* str(v), and the formatting of v inside an f-string: a str is itself, an
\* int its decimal digits, None the text "None".
str(v) ==
    CASE v.t = "str" -> v.s
      [] v.t = "int" -> decimal(v.n)
      [] v.t = "null" -> <<"N", "o", "n", "e">>

\* d.get(k, default) is get(d[k], default); d.get(k) is get(d[k], NULL).
get(held, default) == IF held = ABSENT THEN default ELSE held

truthy_always(s) == TRUE

\* bool(v) of a str
truthy(s) == s # <<>>

\* "d.get(k, []) or []" of a list-valued key: None and [] both give [].
or_empty(v) == IF v.t = "list" THEN v.l ELSE <<>>

---------------------------------------------------------------------------
(* class LayoutRule *)

heading(level, text) ==
    LET prefix == repeat("#", max(1, level))
    IN  rstrip(prefix \o <<" ">> \o text)

callout(text) == rstrip(<<">", " ">> \o text)

\* strips the delimiters only as a pair
math_display_pair(tex) ==
    LET t == strip(tex)
        body == IF startswith(t, <<"\\", "[">>) /\ endswith(t, <<"\\", "]">>)
                THEN strip(removesuffix(removeprefix(t, <<"\\", "[">>), <<"\\", "]">>))
                ELSE t
    IN  <<"$", "$", NL>> \o body \o <<NL, "$", "$">>

math_display(tex) ==
    LET body == strip(removesuffix(removeprefix(strip(tex), <<"\\", "[">>), <<"\\", "]">>))
    IN  <<"$", "$", NL>> \o body \o <<NL, "$", "$">>

note_heading == <<"#", "#", "#", " ", "chuu", "shaku">>

---------------------------------------------------------------------------
(* class DocSheet: _lines is the sequence ls *)

add_heading(ls, level, text) == Append(ls, heading(level, text))

add_block_front(ls, text) == <<rstrip(text)>> \o ls

add_block(ls, text) == Append(ls, rstrip(text))

add_math(ls, tex) == Append(ls, math_display(tex))

\* strips the end of the text only
text_rstrip(ls) == rstrip(join(ls)) \o <<NL>>

\* No entry of _lines is None (every add_* appends a str), so the filter of
\* line 51 keeps every line.
text(ls) == strip(join(ls)) \o <<NL>>

---------------------------------------------------------------------------
(* class BlockCodec.  A block dict has the keys kind (種類), tex (テキスト) *)
(* and text (本文).                                                        *)

_resolve_links(t) == t

\* rejects the kinds it does not know
block_fail_closed(block_payload, ls) ==
    LET kind == str(get(block_payload.kind, Str(<<"dan", "raku">>)))
    IN  IF kind = <<"suu", "shiki">>
        THEN add_math(ls, str(get(block_payload.tex, Str(<<>>))))
        ELSE IF kind = <<"dan", "raku">>
        THEN add_block(ls, str(get(block_payload.text, Str(<<>>))))
        ELSE ls

block(block_payload, ls) ==
    LET kind == str(get(block_payload.kind, Str(<<"dan", "raku">>)))
    IN  IF kind = <<"suu", "shiki">>
        THEN add_math(ls, str(get(block_payload.tex, Str(<<>>))))
        ELSE add_block(ls, _resolve_links(str(get(block_payload.text, Str(<<>>)))))

---------------------------------------------------------------------------
(* class ChapterSheet.  A chapter dict has the keys number (章番号), title *)
(* (章タイトル), one (一行結論), summary (概要説明), sections (節) and       *)
(* notes (註釈); a section dict number (節番号), title (節タイトル), one,   *)
(* summary and items (項); an item dict number (項番号), title (項タイトル),*)
(* one, summary and body (本文); a note dict id (注識別子), title (タイトル)*)
(* and body (本文).                                                        *)

LeadIn == <<"tsu", "ma", "ri", "ten">>

\* The expression of lines 90, 107 and 121 (the same text in the three
\* handlers): f"つまり、{one.removeprefix('つまり、').removeprefix('つまり')}"
lead_in(one) ==
    LeadIn \o removeprefix(removeprefix(one, LeadIn), <<"tsu", "ma", "ri">>)

\* lines 88-94, 105-111, 119-125: the callout and the summary of a node
one_and_summary(node, ls) ==
    LET one == strip(str(get(node.one, Str(<<>>))))
        ls1 == IF truthy(one) THEN add_block(ls, callout(lead_in(one))) ELSE ls
        summary == strip(str(get(node.summary, Str(<<>>))))
    IN  IF truthy(summary) THEN add_block(add_block(ls1, <<>>), summary) ELSE ls1

\* the chapter heading one level too deep
chapter_head_level2(ch, ls) ==
    LET title == <<"dai">> \o str(get(ch.number, NULL)) \o <<"shou", " ">>
                   \o str(get(ch.title, NULL))
    IN  one_and_summary(ch, add_heading(ls, 2, title))

\* chapter(), lines 86-94: what it appends before its loop over the sections
chapter_head(ch, ls) ==
    LET title == <<"dai">> \o str(get(ch.number, NULL)) \o <<"shou", " ">>
                   \o str(get(ch.title, NULL))
    IN  one_and_summary(ch, add_heading(ls, 1, title))

sections_of(ch) == or_empty(get(ch.sections, List(<<>>)))

notes_of(ch) == or_empty(get(ch.notes, List(<<>>)))

\* tests the key, not the list
has_notes_key(ch) == ch.notes # ABSENT

\* line 98: if notes
has_notes(ch) == notes_of(ch) # <<>>

\* section(), lines 102-111
section_head(sec, ls, level) ==
    LET head == str(get(sec.number, NULL)) \o <<" ">> \o str(get(sec.title, NULL))
    IN  one_and_summary(sec, add_heading(add_block(ls, <<>>), level, head))

items_of(sec) == or_empty(get(sec.items, List(<<>>)))

\* item(), lines 116-125
item_head(itm, ls, level) ==
    LET head == str(get(itm.number, NULL)) \o <<" ">> \o str(get(itm.title, NULL))
    IN  one_and_summary(itm, add_heading(add_block(ls, <<>>), level, head))

body_of(node) == or_empty(get(node.body, List(<<>>)))

\* notes(), lines 130-131
notes_head(ls, level) == add_heading(add_block(ls, <<>>), level, note_heading)

\* notes(), lines 133-134
note_marker(n, ls) ==
    LET title == <<"-", " ", "*", "*">> \o str(get(n.id, NULL)) \o <<" ">>
                   \o str(get(n.title, NULL)) \o <<"*", "*">>
    IN  add_block(ls, title)

---------------------------------------------------------------------------
(* class BookForm.  The payload has the keys meta (メタデータ), a dict with *)
(* the key title (タイトル), and body (本文), the chapters.                 *)

chapters_of(book) == or_empty(get(book.body, List(<<>>)))

\* line 146: None.get raises AttributeError
title_raises(book) == get(book.meta, Dict([title |-> ABSENT])) = NULL

title_header(book, ls) ==
    LET meta == get(book.meta, Dict([title |-> ABSENT]))
        title == strip(str(get(meta.d.title, Str(<<>>))))
    IN  IF truthy(title) THEN add_heading(ls, 1, title) ELSE ls

---------------------------------------------------------------------------
(* Bounds of the inputs *)

\* longest list of chapters, sections, items, blocks or notes
MaxList == 2

\* a one-line conclusion is at most this many tokens of ConclusionTokens
MaxTokens == 3

\* a TeX text is at most this many tokens of TexTokens
MaxTexTokens == 4

\* most calls made on a DocSheet used on its own
MaxCalls == 3

---------------------------------------------------------------------------
(* The payloads rendered *)

RECURSIVE Strings(_, _)
Strings(tokens, n) ==
    IF n = 0 THEN {<<>>}
    ELSE LET shorter == Strings(tokens, n - 1)
         IN  shorter \cup {s \o t : s \in shorter, t \in tokens}

RECURSIVE Rep(_, _)
Rep(base, n) == IF n = 0 THEN <<>> ELSE <<base>> \o Rep(base, n - 1)

\* the lists of at most longest nodes whose last node is any of S and whose other
\* nodes are base
Lists(S, base, longest) ==
    {<<>>} \cup {Rep(base, n - 1) \o <<v>> : n \in 1..longest, v \in S}

Para == <<"dan", "raku">>
Math == <<"suu", "shiki">>
Marker == <<"{", "@", "chuu", ":", "1", "}">>

ConclusionTokens == {LeadIn, <<"tsu", "ma", "ri">>, <<"X">>, <<" ">>, <<"ten">>}
ConclusionInputs == Strings(ConclusionTokens, MaxTokens)

TexTokens == {<<"\\", "[">>, <<"\\", "]">>, <<"x">>, <<" ">>, <<"\\">>}
TexInputs == Strings(TexTokens, MaxTexTokens)

KindValues == {ABSENT, NULL, Str(Para), Str(Math), Str(<<"zu">>)}
TextValues == {ABSENT, NULL, Str(<<"P">>), Str(<<"P", " ">>), Str(Marker)}
TexValues == {ABSENT, Str(<<"\\", "[", "x", "\\", "]">>), Str(<<"x">>)}

BaseBlock == [kind |-> Str(Para), text |-> Str(<<"P">>), tex |-> ABSENT]
MathBlock(tex) == [kind |-> Str(Math), text |-> ABSENT, tex |-> Str(tex)]

BlockInputs ==
    {[kind |-> k, text |-> t, tex |-> ABSENT] : k \in KindValues, t \in TextValues}
    \cup {[kind |-> Str(Math), text |-> t, tex |-> x] :
             t \in {ABSENT, Str(<<"P">>)}, x \in TexValues}

NameValues(name) == {ABSENT, NULL, Str(<<>>), name}
OneValues ==
    {ABSENT, NULL, Str(<<>>), Str(<<" ">>), Str(<<"X">>), Str(<<" ", "X", " ">>),
     Str(LeadIn \o <<"X">>)}
SummaryValues ==
    {ABSENT, NULL, Str(<<>>), Str(<<" ">>), Str(<<"S">>), Str(<<" ", "S", " ">>)}

\* base with its number and title, or its conclusion and summary, replaced
HeadVariants(base) ==
    {[base EXCEPT !.number = n, !.title = t] :
        n \in NameValues(base.number), t \in NameValues(base.title)}
    \cup {[base EXCEPT !.one = o, !.summary = s] : o \in OneValues, s \in SummaryValues}

BodyValues == {ABSENT, NULL} \cup {List(l) : l \in Lists(BlockInputs, BaseBlock, MaxList)}

BaseItem ==
    [number |-> Str(<<"3">>), title |-> Str(<<"E">>), one |-> ABSENT,
     summary |-> ABSENT, body |-> List(<<BaseBlock>>)]

ItemInputs == HeadVariants(BaseItem) \cup {[BaseItem EXCEPT !.body = v] : v \in BodyValues}

BaseSection ==
    [number |-> Str(<<"2">>), title |-> Str(<<"D">>), one |-> ABSENT,
     summary |-> ABSENT, items |-> List(<<BaseItem>>)]

SectionInputs ==
    HeadVariants(BaseSection)
    \cup {[BaseSection EXCEPT !.items = v] :
             v \in {ABSENT, NULL} \cup {List(l) : l \in Lists(ItemInputs, BaseItem, MaxList)}}

BaseNote ==
    [id |-> Str(<<"chuu", "1">>), title |-> Str(<<"F">>), body |-> List(<<BaseBlock>>)]

NoteInputs ==
    {[BaseNote EXCEPT !.id = i, !.title = t] :
        i \in NameValues(BaseNote.id), t \in NameValues(BaseNote.title)}
    \cup {[BaseNote EXCEPT !.body = v] : v \in BodyValues}

BaseChapter ==
    [number |-> Num(1), title |-> Str(<<"C">>), one |-> ABSENT, summary |-> ABSENT,
     sections |-> List(<<>>), notes |-> List(<<>>)]

ChapterInputs ==
    HeadVariants(BaseChapter)
    \cup {[BaseChapter EXCEPT !.sections = v, !.notes = w] :
             v \in {ABSENT, NULL, List(<<>>), List(<<BaseSection>>)},
             w \in {ABSENT, NULL, List(<<>>), List(<<BaseNote>>)}}
    \cup {[BaseChapter EXCEPT !.sections = List(l)] :
             l \in Lists(SectionInputs, BaseSection, MaxList)}
    \cup {[BaseChapter EXCEPT !.sections = List(<<BaseSection>>), !.notes = List(l)] :
             l \in Lists(NoteInputs, BaseNote, MaxList)}

\* the chapter before the last one of a book: one section and one note
FullChapter ==
    [BaseChapter EXCEPT !.sections = List(<<BaseSection>>), !.notes = List(<<BaseNote>>)]

Titled(title) == Dict([title |-> title])

MetaValues ==
    {ABSENT, NULL}
    \cup {Titled(v) : v \in {ABSENT, NULL, Str(<<>>), Str(<<"T">>), Str(<<" ", "T", " ">>)}}

\* books that differ in their structure and in which fields they hold
StructureBooks ==
    {[meta |-> m, body |-> b] :
        m \in MetaValues, b \in {ABSENT, NULL, List(<<>>), List(<<BaseChapter>>)}}
    \cup {[meta |-> Titled(Str(<<"T">>)), body |-> List(l)] :
             l \in Lists(ChapterInputs, FullChapter, MaxList)}

\* one chapter, one section and one item that all hold the conclusion c
ConclusionBook(c) ==
    LET itm == [BaseItem EXCEPT !.one = Str(c)]
        sec == [BaseSection EXCEPT !.one = Str(c), !.items = List(<<itm>>)]
        ch == [BaseChapter EXCEPT !.one = Str(c), !.sections = List(<<sec>>),
                                  !.notes = List(<<BaseNote>>)]
    IN  [meta |-> ABSENT, body |-> List(<<ch>>)]

\* one item and one note whose body is the display math tex
MathBook(tex) ==
    LET itm == [BaseItem EXCEPT !.body = List(<<MathBlock(tex)>>)]
        sec == [BaseSection EXCEPT !.items = List(<<itm>>)]
        note == [BaseNote EXCEPT !.body = List(<<MathBlock(tex)>>)]
        ch == [BaseChapter EXCEPT !.sections = List(<<sec>>), !.notes = List(<<note>>)]
    IN  [meta |-> ABSENT, body |-> List(<<ch>>)]

BookInputs ==
    StructureBooks
    \cup {ConclusionBook(c) : c \in ConclusionInputs}
    \cup {MathBook(x) : x \in TexInputs}

---------------------------------------------------------------------------
(* BookForm.markdown as a walk of the payload.  pc is the place of the     *)
(* walk: the loop a handler is in; ix holds the 1-based index each loop    *)
(* has reached.  origin[i] is the path of the node whose handler appended  *)
(* lines[i]: <<0>> the book title, <<c>> chapter c, <<c, 1, s>> its        *)
(* section s, <<c, 1, s, i>> item i, <<c, 1, s, i, b>> block b of the      *)
(* item, <<c, 2>> the notes of chapter c, <<c, 2, n>> note n and           *)
(* <<c, 2, n, b>> block b of the note.                                     *)

Start == [ch |-> 0, sec |-> 0, itm |-> 0, blk |-> 0, note |-> 0]

NoBook == [meta |-> ABSENT, body |-> ABSENT]

\* the arguments of the calls made on a DocSheet used on its own
SheetLevels == {0, 1, 2}
SheetTexts == {<<>>, <<" ">>, <<"a">>, <<" ", "a", " ">>, <<"a", NL>>, <<NL>>}
SheetTex == {<<>>, <<" ">>, <<"x">>, <<"\\", "[", "x", "\\", "]">>}

\* A BookForm about to render its payload (pc = "title"), or a DocSheet just
\* constructed that a caller fills by itself (pc = "sheet").
Init ==
    /\ \/ pc = "title" /\ payload \in BookInputs
       \/ pc = "sheet" /\ payload = NoBook
    /\ lines = <<>>
    /\ ix = Start
    /\ out = <<>>
    /\ origin = <<>>

Ch == chapters_of(payload)[ix.ch]
Sec == sections_of(Ch)[ix.sec]
Itm == items_of(Sec)[ix.itm]
Note == notes_of(Ch)[ix.note]

\* the origin of the lines a handler at path appended
Tagged(path, new) == origin \o Rep(path, Len(new) - Len(lines))

Appends(path, new) ==
    /\ lines' = new
    /\ origin' = Tagged(path, new)

\* _emit, line 151: _title_header
TitleHeader ==
    /\ pc = "title"
    /\ IF title_raises(payload)
       THEN pc' = "raised" /\ UNCHANGED <<lines, origin, ix>>
       ELSE /\ Appends(<<0>>, title_header(payload, lines))
            /\ pc' = "chapters"
            /\ ix' = [ix EXCEPT !.ch = 1]
    /\ UNCHANGED <<payload, out>>

\* _emit, lines 152-154, and chapter() up to its loop over the sections
Chapter ==
    /\ pc = "chapters"
    /\ ix.ch <= Len(chapters_of(payload))
    /\ Appends(<<ix.ch>>, chapter_head(Ch, add_block(lines, <<>>)))
    /\ pc' = "sections"
    /\ ix' = [ix EXCEPT !.sec = 1]
    /\ UNCHANGED <<payload, out>>

\* chapter(), lines 95-96, and section() up to its loop over the items
Section ==
    /\ pc = "sections"
    /\ ix.sec <= Len(sections_of(Ch))
    /\ Appends(<<ix.ch, 1, ix.sec>>, section_head(Sec, lines, 2))
    /\ pc' = "items"
    /\ ix' = [ix EXCEPT !.itm = 1]
    /\ UNCHANGED <<payload, out>>

\* section(), lines 112-113, and item() up to its loop over the blocks;
\* the level is that of the section plus one
Item ==
    /\ pc = "items"
    /\ ix.itm <= Len(items_of(Sec))
    /\ Appends(<<ix.ch, 1, ix.sec, ix.itm>>, item_head(Itm, lines, 2 + 1))
    /\ pc' = "blocks"
    /\ ix' = [ix EXCEPT !.blk = 1]
    /\ UNCHANGED <<payload, out>>

\* item(), lines 126-127
Block ==
    /\ pc = "blocks"
    /\ ix.blk <= Len(body_of(Itm))
    /\ Appends(<<ix.ch, 1, ix.sec, ix.itm, ix.blk>>, block(body_of(Itm)[ix.blk], lines))
    /\ ix' = [ix EXCEPT !.blk = @ + 1]
    /\ UNCHANGED <<payload, out, pc>>

\* item() returns to the loop of section()
ItemEnd ==
    /\ pc = "blocks"
    /\ ix.blk > Len(body_of(Itm))
    /\ pc' = "items"
    /\ ix' = [ix EXCEPT !.itm = @ + 1, !.blk = 0]
    /\ UNCHANGED <<payload, out, lines, origin>>

\* section() returns to the loop of chapter()
SectionEnd ==
    /\ pc = "items"
    /\ ix.itm > Len(items_of(Sec))
    /\ pc' = "sections"
    /\ ix' = [ix EXCEPT !.sec = @ + 1, !.itm = 0]
    /\ UNCHANGED <<payload, out, lines, origin>>

\* chapter(), lines 97-99, and notes() up to its loop
Notes ==
    /\ pc = "sections"
    /\ ix.sec > Len(sections_of(Ch))
    /\ has_notes(Ch)
    /\ Appends(<<ix.ch, 2>>, notes_head(lines, 3))
    /\ pc' = "notes"
    /\ ix' = [ix EXCEPT !.note = 1, !.sec = 0]
    /\ UNCHANGED <<payload, out>>

\* notes(), lines 132-134
NoteMarker ==
    /\ pc = "notes"
    /\ ix.note <= Len(notes_of(Ch))
    /\ Appends(<<ix.ch, 2, ix.note>>, note_marker(Note, lines))
    /\ pc' = "note_body"
    /\ ix' = [ix EXCEPT !.blk = 1]
    /\ UNCHANGED <<payload, out>>

\* note_body(), lines 70-71
NoteBody ==
    /\ pc = "note_body"
    /\ ix.blk <= Len(body_of(Note))
    /\ Appends(<<ix.ch, 2, ix.note, ix.blk>>, block(body_of(Note)[ix.blk], lines))
    /\ ix' = [ix EXCEPT !.blk = @ + 1]
    /\ UNCHANGED <<payload, out, pc>>

\* note_body() returns to the loop of notes()
NoteEnd ==
    /\ pc = "note_body"
    /\ ix.blk > Len(body_of(Note))
    /\ pc' = "notes"
    /\ ix' = [ix EXCEPT !.note = @ + 1, !.blk = 0]
    /\ UNCHANGED <<payload, out, lines, origin>>

\* chapter() returns to the loop of _emit: after the sections when it has no
\* notes, after the notes otherwise
ChapterEnd ==
    /\ pc \in {"sections", "notes"}
    /\ IF has_notes(Ch)
       THEN pc = "notes" /\ ix.note > Len(notes_of(Ch))
       ELSE pc = "sections" /\ ix.sec > Len(sections_of(Ch))
    /\ pc' = "chapters"
    /\ ix' = [ix EXCEPT !.ch = @ + 1, !.sec = 0, !.note = 0]
    /\ UNCHANGED <<payload, out, lines, origin>>

\* markdown, line 160: sheet.text
Markdown ==
    /\ pc = "chapters"
    /\ ix.ch > Len(chapters_of(payload))
    /\ out' = text(lines)
    /\ pc' = "done"
    /\ UNCHANGED <<payload, lines, origin, ix>>

\* DocSheet.add_heading, called on a sheet of its own
AddHeading ==
    /\ pc = "sheet"
    /\ Len(lines) < MaxCalls
    /\ \E level \in SheetLevels, t \in SheetTexts :
          Appends(<<0>>, add_heading(lines, level, t))
    /\ UNCHANGED <<payload, pc, ix, out>>

\* DocSheet.add_block, called on a sheet of its own
AddBlock ==
    /\ pc = "sheet"
    /\ Len(lines) < MaxCalls
    /\ \E t \in SheetTexts : Appends(<<0>>, add_block(lines, t))
    /\ UNCHANGED <<payload, pc, ix, out>>

\* DocSheet.add_math, called on a sheet of its own
AddMath ==
    /\ pc = "sheet"
    /\ Len(lines) < MaxCalls
    /\ \E tex \in SheetTex : Appends(<<0>>, add_math(lines, tex))
    /\ UNCHANGED <<payload, pc, ix, out>>

Next ==
    \/ AddHeading
    \/ AddBlock
    \/ AddMath
    \/ TitleHeader
    \/ Chapter
    \/ Section
    \/ Item
    \/ Block
    \/ ItemEnd
    \/ SectionEnd
    \/ Notes
    \/ NoteMarker
    \/ NoteBody
    \/ NoteEnd
    \/ ChapterEnd
    \/ Markdown

Spec == Init /\ [][Next]_vars

TypeOK ==
    /\ pc \in {"sheet", "title", "raised", "chapters", "sections", "items", "blocks", "notes",
               "note_body", "done"}
    /\ Len(origin) = Len(lines)

---------------------------------------------------------------------------
(* The nodes of the payload by path, and the lines each one produced *)

ChapterAt(c) == chapters_of(payload)[c]
SectionAt(p) == sections_of(ChapterAt(p[1]))[p[3]]
ItemAt(p) == items_of(SectionAt(p))[p[4]]
NoteAt(p) == notes_of(ChapterAt(p[1]))[p[3]]

ChapterPaths == {<<c>> : c \in 1..Len(chapters_of(payload))}
SectionPaths ==
    UNION {{<<p[1], 1, s>> : s \in 1..Len(sections_of(ChapterAt(p[1])))} : p \in ChapterPaths}
ItemPaths ==
    UNION {{p \o <<i>> : i \in 1..Len(items_of(SectionAt(p)))} : p \in SectionPaths}
BlockPaths ==
    UNION {{p \o <<b>> : b \in 1..Len(body_of(ItemAt(p)))} : p \in ItemPaths}
NotePaths ==
    UNION {{<<p[1], 2, n>> : n \in 1..Len(notes_of(ChapterAt(p[1])))} : p \in ChapterPaths}
NoteBlockPaths ==
    UNION {{p \o <<b>> : b \in 1..Len(body_of(NoteAt(p)))} : p \in NotePaths}

HeadPaths == ChapterPaths \cup SectionPaths \cup ItemPaths

NodeAt(p) ==
    CASE Len(p) = 1 -> ChapterAt(p[1])
      [] Len(p) = 3 /\ p[2] = 1 -> SectionAt(p)
      [] Len(p) = 3 /\ p[2] = 2 -> NoteAt(p)
      [] Len(p) = 4 /\ p[2] = 1 -> ItemAt(p)
      [] Len(p) = 4 /\ p[2] = 2 -> body_of(NoteAt(p))[p[4]]
      [] Len(p) = 5 -> body_of(ItemAt(p))[p[5]]

Where(p) == {i \in 1..Len(lines) : origin[i] = p}

Emitted(p) == Where(p) # {}

Least(S) == CHOOSE i \in S : \A j \in S : i <= j

\* the lines the handler of the node at p appended, in order
LinesOf(p) ==
    IF Where(p) = {} THEN <<>>
    ELSE SubSeq(lines, Least(Where(p)), Least(Where(p)) + Cardinality(Where(p)) - 1)

IsPrefix(s, t) == Len(s) <= Len(t) /\ SubSeq(t, 1, Len(s)) = s

Contains(s, w) == \E i \in 0..(Len(s) - Len(w)) : SubSeq(s, i + 1, i + Len(w)) = w

\* the value is a str or an int: the key is held and is not null
Given(v) == v.t \in {"str", "int"}

\* "missing" for a conclusion or a summary: key absent, empty, or whitespace only
Missing(v) == v = ABSENT \/ (v.t = "str" /\ strip(v.s) = <<>>)

Fence(body) == <<"$", "$", NL>> \o body \o <<NL, "$", "$">>

MinimalBook == [meta |-> Titled(Str(<<"T">>)), body |-> List(<<BaseChapter>>)]

---------------------------------------------------------------------------
(* C1 *)

\* C1, as stated: the heading of a chapter with number n and title t is the
\* line "# n t", and the minimal book renders to "# T\n\n# 1 C\n".
C1_PlainHeading ==
    /\ \A p \in ChapterPaths :
          (Emitted(p) /\ Given(NodeAt(p).number) /\ Given(NodeAt(p).title)) =>
              LinesOf(p)[2] = rstrip(<<"#", " ">> \o str(NodeAt(p).number) \o <<" ">>
                                       \o str(NodeAt(p).title))
    /\ (pc = "done" /\ payload = MinimalBook) =>
          out = <<"#", " ", "T", NL, NL, "#", " ", "1", " ", "C", NL>>

\* C1, amended: the heading of a chapter with number n and title t is the
\* level-1 heading "# 第n章 t" (trailing whitespace stripped), and the minimal
\* book renders to "# T\n\n# 第1章 C\n".
C1_ChapterHeading ==
    /\ \A p \in ChapterPaths :
          (Emitted(p) /\ Given(NodeAt(p).number) /\ Given(NodeAt(p).title)) =>
              LinesOf(p)[2] = rstrip(<<"#", " ", "dai">> \o str(NodeAt(p).number)
                                       \o <<"shou", " ">> \o str(NodeAt(p).title))
    /\ (pc = "done" /\ payload = MinimalBook) =>
          out = <<"#", " ", "T", NL, NL, "#", " ", "dai", "1", "shou", " ", "C", NL>>

C1_Witness == pc = "done" /\ payload = MinimalBook /\ Emitted(<<1>>)

---------------------------------------------------------------------------
(* C2 *)

NoteHeadingLine == <<"#", "#", "#", " ", "chuu", "shaku">>

\* C2: the notes of a chapter open with one blank line and then the line
\* "### 註釈", after every line of the chapter's sections, and each note gives the
\* line "- **{id} {title}**" directly followed by its body.
C2_NotesLayout ==
    \A p \in ChapterPaths :
        Emitted(<<p[1], 2>>) =>
            /\ LinesOf(<<p[1], 2>>) = <<<<>>, NoteHeadingLine>>
            /\ \A i \in 1..Len(lines) :
                  (Len(origin[i]) >= 3 /\ origin[i][1] = p[1] /\ origin[i][2] = 1) =>
                      i < Least(Where(<<p[1], 2>>))
            /\ \A q \in NotePaths :
                  (q[1] = p[1] /\ Emitted(q) /\ Given(NodeAt(q).id) /\ Given(NodeAt(q).title)) =>
                      LinesOf(q) = <<<<"-", " ", "*", "*">> \o str(NodeAt(q).id) \o <<" ">>
                                       \o str(NodeAt(q).title) \o <<"*", "*">>>>

---------------------------------------------------------------------------
(* C3 *)

\* C3: the conclusion a chapter, section or item emitted in its callout is a
\* fixed point of the normalization (N(N(c)) = N(c)) and starts with the
\* lead-in "つまり、" once only.
C3_Idempotent ==
    \A p \in HeadPaths :
        (Emitted(p) /\ NodeAt(p).one.t = "str" /\ strip(NodeAt(p).one.s) # <<>>) =>
            LET emitted == removeprefix(LinesOf(p)[3], <<">", " ">>)
            IN  /\ emitted = lead_in(strip(NodeAt(p).one.s))
                /\ lead_in(emitted) = emitted
                /\ ~startswith(removeprefix(emitted, LeadIn), <<"tsu", "ma", "ri">>)

---------------------------------------------------------------------------
(* C4 *)

OneFinalNewline(t) ==
    /\ Len(t) >= 1
    /\ t[Len(t)] = NL
    /\ Len(t) >= 2 => t[Len(t) - 1] # NL

\* C4, as stated: the text of a sheet, after any calls, ends with exactly one
\* newline and its first character is no whitespace; so does the markdown of
\* a book.
C4_NoLeadingBlank ==
    /\ (pc = "sheet" /\ lines # <<>>) =>
          (OneFinalNewline(text(lines)) /\ ~IsSpace(text(lines)[1]))
    /\ pc = "done" => (OneFinalNewline(out) /\ ~IsSpace(out[1]))

\* C4, amended: the text ends with exactly one newline; it is that newline
\* alone exactly when no line of the sheet holds anything but whitespace (a
\* book with no title and no chapters), and otherwise its first character is
\* no whitespace.
C4_TextEnds ==
    /\ OneFinalNewline(text(lines))
    /\ (\A i \in 1..Len(lines) : strip(lines[i]) = <<>>) <=> text(lines) = <<NL>>
    /\ text(lines) # <<NL>> => ~IsSpace(text(lines)[1])
    /\ pc = "done" => out = text(lines)

C4_Witness ==
    /\ Len(lines) = 3
    /\ lines[1] = <<>>
    /\ lines[2] # <<>>
    /\ lines[3] = <<>>
    /\ text(lines) = lines[2] \o <<NL>>

---------------------------------------------------------------------------
(* C5 *)

\* C5: a chapter, section or item appends the separator before it and its
\* heading; a missing conclusion adds no callout and a missing summary adds
\* no blank line and no summary line, so with both missing the heading is the
\* node's last line and the next line is the first child's.
C5_MissingFields ==
    \A p \in HeadPaths :
        Emitted(p) =>
            LET node == NodeAt(p)
                own == LinesOf(p)
            IN  /\ Len(own) >= 2 /\ own[1] = <<>> /\ own[2][1] = "#"
                /\ (Missing(node.one) /\ Missing(node.summary)) => Len(own) = 2
                /\ (Missing(node.one) /\ ~Missing(node.summary)) =>
                      own = <<own[1], own[2], <<>>, strip(str(node.summary))>>
                /\ (~Missing(node.one) /\ Missing(node.summary)) =>
                      (Len(own) = 3 /\ startswith(own[3], <<">", " ">>))
                /\ \A i \in 3..Len(own) : own[i] # <<">">>

C5_Witness ==
    \E p \in HeadPaths :
        /\ Emitted(p)
        /\ NodeAt(p).one = Str(<<" ">>)
        /\ NodeAt(p).summary = ABSENT
        /\ Len(lines) > Least(Where(p)) + 1

---------------------------------------------------------------------------
(* C6 *)

\* C6: rendering never fails, and a missing number, id or title puts no
\* placeholder text "None" in a line.
C6_MissingAsEmpty ==
    /\ pc # "raised"
    /\ \A i \in 1..Len(lines) : ~Contains(lines[i], <<"N", "o", "n", "e">>)

---------------------------------------------------------------------------
(* C7 *)

TexOpen == <<"\\", "[">>
TexClose == <<"\\", "]">>

\* the TeX bodies whose four delimited forms are among TexInputs
TexBodies == Strings(TexTokens, MaxTexTokens - 2)

Forms(b) == {b, TexOpen \o b, b \o TexClose, TexOpen \o b \o TexClose}

MathPaths ==
    {p \in BlockPaths \cup NoteBlockPaths :
        NodeAt(p).kind = Str(Math) /\ NodeAt(p).tex.t = "str"}

\* C7, as stated: for every body b, the four forms of b render as the fence
\* "$$", the trimmed b, and the fence "$$".
C7_AnyBody ==
    \A p \in MathPaths :
        Emitted(p) =>
            \A b \in TexBodies :
                NodeAt(p).tex.s \in Forms(b) => LinesOf(p) = <<Fence(strip(b))>>

\* C7, amended: the same for every body b whose trimmed text neither starts
\* with "\[" nor ends with "\]".
C7_PlainBody ==
    \A p \in MathPaths :
        Emitted(p) =>
            \A b \in TexBodies :
                (/\ NodeAt(p).tex.s \in Forms(b)
                 /\ ~startswith(strip(b), TexOpen)
                 /\ ~endswith(strip(b), TexClose)) => LinesOf(p) = <<Fence(strip(b))>>

C7_Witness ==
    \E p \in MathPaths :
        /\ Emitted(p)
        /\ NodeAt(p).tex.s = TexOpen \o <<"x">>
        /\ LinesOf(p) = <<Fence(<<"x">>)>>

---------------------------------------------------------------------------
(* C8 *)

\* C8: once the book is rendered, every block produced exactly one line: a
\* block whose kind is 数式 the display math of its tex (its text ignored), a
\* block of any other kind, or of none, its text with only trailing
\* whitespace stripped.
C8_Dispatch ==
    pc = "done" =>
        \A p \in BlockPaths \cup NoteBlockPaths :
            LET b == NodeAt(p)
            IN  IF b.kind = Str(Math)
                THEN LinesOf(p) = <<math_display(IF b.tex = ABSENT THEN <<>> ELSE b.tex.s)>>
                ELSE b.text # NULL =>
                        LinesOf(p) = <<rstrip(IF b.text = ABSENT THEN <<>> ELSE b.text.s)>>

C8_Witness ==
    /\ pc = "done"
    /\ \E p \in BlockPaths :
          /\ NodeAt(p).kind = Str(<<"zu">>)
          /\ NodeAt(p).text = Str(Marker)
          /\ LinesOf(p) = <<Marker>>

---------------------------------------------------------------------------
(* C9 *)

\* C9: a chapter whose notes are absent, null or empty gets no line from
\* notes(): no separator of the notes and no notes heading.
C9_NoNotesNoHeading ==
    \A p \in ChapterPaths :
        NodeAt(p).notes \in {ABSENT, NULL, List(<<>>)} =>
            /\ ~Emitted(<<p[1], 2>>)
            /\ \A i \in 1..Len(lines) :
                  origin[i][1] = p[1] =>
                      lines[i] \notin {NoteHeadingLine, heading(3, NoteHeadingLine)}

C9_Witness ==
    /\ pc = "done"
    /\ \E p \in ChapterPaths :
          /\ NodeAt(p).notes = NULL
          /\ Emitted(<<p[1], 1, 1>>)

---------------------------------------------------------------------------
(* C10 *)

\* p is q or comes before q in the pre-order of the payload
RECURSIVE Before(_, _)
Before(p, q) ==
    IF p = <<>> THEN TRUE
    ELSE IF q = <<>> THEN FALSE
    ELSE IF p[1] # q[1] THEN p[1] < q[1]
    ELSE Before(Tail(p), Tail(q))

InDocumentOrder(o) == \A i \in 1..(Len(o) - 1) : Before(o[i], o[i + 1])

\* C10: every step keeps the lines already appended, in their order, and
\* appends only lines of nodes that come after every node that has lines.
C10_DocumentOrder ==
    [][IsPrefix(lines, lines') /\ IsPrefix(origin, origin') /\ InDocumentOrder(origin')]_vars

C10_Witness ==
    /\ pc = "done"
    /\ Emitted(<<1, 1, 1, 1, 1>>)
    /\ Emitted(<<1, 2, 1, 1>>)
    /\ Emitted(<<2, 1, 2, 1, 1>>)

=============================================================================
